---- MODULE Spec2Model ----
(***************************************************************************)
(* Model of src/main.py: a python-socketio relay.  Clients register a UUID *)
(* and exchange text messages addressed by UUID.  The server state is the  *)
(* two module-level dictionaries users_by_sid and users_by_uuid; the       *)
(* operations are the four event handlers connect, disconnect, register    *)
(* and message.  Handlers are asyncio coroutines: a handler runs without   *)
(* interruption up to an `await sio.emit(...)`, where it may be suspended  *)
(* while other handlers run, and is resumed later.                         *)
(***************************************************************************)
EXTENDS Integers, Sequences, FiniteSets, Bags, TLC

VARIABLES
    users_by_sid,     \* dict: sid -> uuid string (line 15)
    users_by_uuid,    \* dict: uuid string -> sid (line 16)
    conn,             \* the transport's view of each session id
    tasks,            \* the handlers suspended at an await
    last_registered   \* history: per live connection, the uuid of its latest
                      \* acknowledged registration

vars == <<users_by_sid, users_by_uuid, conn, tasks, last_registered>>

(***************************************************************************)
(* Bound of the model.                                                     *)
(***************************************************************************)
\* Number of handlers that may be suspended at an await at the same time.
MaxSuspended == 2

(***************************************************************************)
(* Wire values (JSON).  A value is written by its name; TypeOf gives its   *)
(* Python type and Chars the characters of a string, which is what the     *)
(* code's string operations read.                                          *)
(***************************************************************************)
Rep(c, n) == [i \in 1..n |-> c]

\* the canonical 8-4-4-4-12 form of the UUID whose 32 hex digits are all c
Canonical(c) ==
    Rep(c, 8) \o <<"-">> \o Rep(c, 4) \o <<"-">> \o Rep(c, 4) \o <<"-">>
              \o Rep(c, 4) \o <<"-">> \o Rep(c, 12)

Chars ==
    [ua     |-> Canonical("a"),
     ub     |-> Canonical("b"),
     uc     |-> Canonical("c"),
     \* 31 hex digits
     short  |-> Rep("a", 31),
     \* 32 characters, not all of them hex digits
     nothex |-> Rep("a", 31) \o <<"g">>,
     empty  |-> <<>>,
     hi     |-> <<"h", "i">>,
     s1     |-> <<"s", "1">>,
     s2     |-> <<"s", "2">>,
     s3     |-> <<"s", "3">>]

PyNone == "None"
IntV == "7"
ListV == "[]"

TypeOf(v) ==
    CASE v = PyNone -> "null"
      [] v = IntV   -> "int"
      [] v = ListV  -> "list"
      [] OTHER      -> "str"

UA == "ua"
UB == "ub"
UC == "uc"
EmptyStr == "empty"
Hi == "hi"

\* the transport-assigned session ids: opaque non-empty strings, never reused
Sids == {"s1", "s2", "s3"}

\* An event's payload: None, or a dict given by its keys and values.
NoData == [t |-> "null"]
Dict(kv) == [t |-> "dict", kv |-> kv]
EmptyKv == [k \in {} |-> PyNone]

(***************************************************************************)
(* Python dictionaries: dict.get(k), d[k] = v, dict.pop(k, None).          *)
(***************************************************************************)
EmptyDict == [k \in {} |-> PyNone]
Get(d, k) == IF k \in DOMAIN d THEN d[k] ELSE PyNone
Put(d, k, v) == [x \in (DOMAIN d) \cup {k} |-> IF x = k THEN v ELSE d[x]]
Pop(d, k) == [x \in (DOMAIN d) \ {k} |-> d[x]]

\* Python truthiness of a value tested with `if u:` / `if not v:`
Truthy(v) ==
    CASE TypeOf(v) = "null" -> FALSE
      [] TypeOf(v) = "str"  -> Chars[v] # <<>>
      [] TypeOf(v) = "list" -> FALSE
      [] OTHER              -> TRUE

\* `not data` is false: the payload is a non-empty dict
TruthyData(data) == data.t = "dict" /\ DOMAIN data.kv # {}

\* `key in data` for a payload that is a dict
HasKey(data, key) == data.t = "dict" /\ key \in DOMAIN data.kv

\* a list used as a dictionary key raises TypeError (unhashable)
Hashable(v) == TypeOf(v) \in {"str", "int", "null"}

(***************************************************************************)
(* uuid.UUID(hex): the standard library's parser, as called at line 42.    *)
(* The outcome is "ok" or the name of the exception raised.                *)
(***************************************************************************)
HexDigits == {"0", "1", "2", "3", "4", "5", "6", "7", "8", "9",
              "a", "b", "c", "d", "e", "f", "A", "B", "C", "D", "E", "F"}

\* the number of hex digits of a UUID (128 bits)
UuidHexLen == 32

RECURSIVE Replace(_, _)
\* s.replace(pat, ''): every non-overlapping occurrence of pat, left to right
Replace(s, pat) ==
    IF Len(s) < Len(pat) THEN s
    ELSE IF SubSeq(s, 1, Len(pat)) = pat
         THEN Replace(SubSeq(s, Len(pat) + 1, Len(s)), pat)
         ELSE <<Head(s)>> \o Replace(Tail(s), pat)

RECURSIVE LStrip(_, _)
LStrip(s, cs) == IF s # <<>> /\ Head(s) \in cs THEN LStrip(Tail(s), cs) ELSE s

RECURSIVE RStrip(_, _)
RStrip(s, cs) ==
    IF s # <<>> /\ s[Len(s)] \in cs THEN RStrip(SubSeq(s, 1, Len(s) - 1), cs) ELSE s

\* s.strip(cs)
Strip(s, cs) == RStrip(LStrip(s, cs), cs)

\* int(s, 16) succeeds.  int() also accepts surrounding whitespace, a sign,
\* a 0x prefix and single underscores between digits; none of the model's
\* strings contains such characters.
IsHexInt(s) == s # <<>> /\ \A i \in 1..Len(s) : s[i] \in HexDigits

\* the parse of a string given by its characters
ParseHex(chars) ==
    LET h1 == Replace(Replace(chars, <<"u", "r", "n", ":">>),
                      <<"u", "u", "i", "d", ":">>)
        h2 == SelectSeq(Strip(h1, {"{", "}"}), LAMBDA c : c # "-")
    IN  IF Len(h2) # UuidHexLen THEN "ValueError"
        ELSE IF IsHexInt(h2) THEN "ok" ELSE "ValueError"

\* ParseHex of every string of the model, computed once
Parsed == [n \in DOMAIN Chars |-> ParseHex(Chars[n])]

uuid_UUID(hex) ==
    CASE TypeOf(hex) = "null" -> "TypeError"
      [] TypeOf(hex) = "str"  -> Parsed[hex]
      \* an int or a list has no .replace
      [] OTHER                -> "AttributeError"

(***************************************************************************)
(* `await sio.emit(event, data, to=sid)` at a line of main.py, and the     *)
(* payloads the handlers build.                                            *)
(***************************************************************************)
Emit(line, event, data, to) == [line |-> line, event |-> event, data |-> data, to |-> to]

ErrorMsg(text) == [message |-> text]

\* f"Peer {to_uuid} is not online"
PeerNotOnline(to_uuid) == <<"Peer ", to_uuid, " is not online">>

\* What one run of a handler does: the dictionaries it leaves, the emits it
\* performs in order, and how it ends ("return" or the exception it raises).
Result(by_sid, by_uuid, emits, outcome) ==
    [by_sid |-> by_sid, by_uuid |-> by_uuid, emits |-> emits, outcome |-> outcome]

(***************************************************************************)
(* The event handlers (lines 19-73), on the current dictionaries.          *)
(***************************************************************************)
connect(sid) == Result(users_by_sid, users_by_uuid, <<>>, "return")

\* disconnect deleting the entry with `del users_by_sid[sid]` instead of
\* pop(sid, None): a connection that never registered raises KeyError
disconnect_deletes_unguarded(sid) ==
    IF sid \notin DOMAIN users_by_sid
    THEN Result(users_by_sid, users_by_uuid, <<>>, "KeyError")
    ELSE LET u == users_by_sid[sid]
         IN  Result(Pop(users_by_sid, sid),
                    IF Truthy(u) THEN Pop(users_by_uuid, u) ELSE users_by_uuid,
                    <<>>, "return")

\* disconnect without the removal of line 28: the identity stays in
\* users_by_uuid
disconnect_keeps_uuid_entry(sid) ==
    Result(Pop(users_by_sid, sid), users_by_uuid, <<>>, "return")

disconnect(sid) ==
    LET u == Get(users_by_sid, sid)
    IN  IF Truthy(u)
        THEN Result(Pop(users_by_sid, sid), Pop(users_by_uuid, u), <<>>, "return")
        ELSE Result(Pop(users_by_sid, sid), users_by_uuid, <<>>, "return")

\* register with line 47 left out: the uuid -> sid direction is not written
register_forgets_uuid_map(sid, data) ==
    IF ~TruthyData(data) \/ ~HasKey(data, "uuid")
    THEN Result(users_by_sid, users_by_uuid,
                <<Emit(38, "error", ErrorMsg(<<"uuid is required">>), sid)>>, "return")
    ELSE LET u == data.kv.uuid
             parsed == uuid_UUID(u)
         IN  IF parsed \in {"ValueError", "TypeError"}
             THEN Result(users_by_sid, users_by_uuid,
                         <<Emit(44, "error", ErrorMsg(<<"Invalid uuid">>), sid)>>,
                         "return")
             ELSE IF parsed # "ok"
             THEN Result(users_by_sid, users_by_uuid, <<>>, parsed)
             ELSE Result(Put(users_by_sid, sid, u), users_by_uuid,
                         <<Emit(48, "registered", [uuid |-> u], sid)>>, "return")

\* register with the writes of lines 46-47 moved before the validation of
\* lines 41-45: a rejected value is bound all the same
register_binds_before_validating(sid, data) ==
    IF ~TruthyData(data) \/ ~HasKey(data, "uuid")
    THEN Result(users_by_sid, users_by_uuid,
                <<Emit(38, "error", ErrorMsg(<<"uuid is required">>), sid)>>, "return")
    ELSE LET u == data.kv.uuid
             parsed == uuid_UUID(u)
         IN  IF parsed \in {"ValueError", "TypeError"}
             THEN Result(Put(users_by_sid, sid, u), Put(users_by_uuid, u, sid),
                         <<Emit(44, "error", ErrorMsg(<<"Invalid uuid">>), sid)>>,
                         "return")
             ELSE IF parsed # "ok"
             THEN Result(Put(users_by_sid, sid, u), Put(users_by_uuid, u, sid),
                         <<>>, parsed)
             ELSE Result(Put(users_by_sid, sid, u), Put(users_by_uuid, u, sid),
                         <<Emit(48, "registered", [uuid |-> u], sid)>>, "return")

register(sid, data) ==
    IF ~TruthyData(data) \/ ~HasKey(data, "uuid")
    THEN Result(users_by_sid, users_by_uuid,
                <<Emit(38, "error", ErrorMsg(<<"uuid is required">>), sid)>>, "return")
    ELSE LET u == data.kv.uuid
             parsed == uuid_UUID(u)
         IN  IF parsed \in {"ValueError", "TypeError"}
             THEN Result(users_by_sid, users_by_uuid,
                         <<Emit(44, "error", ErrorMsg(<<"Invalid uuid">>), sid)>>,
                         "return")
             ELSE IF parsed # "ok"
             THEN Result(users_by_sid, users_by_uuid, <<>>, parsed)
             ELSE Result(Put(users_by_sid, sid, u), Put(users_by_uuid, u, sid),
                         <<Emit(48, "registered", [uuid |-> u], sid)>>, "return")

\* message with lines 72 and 73 exchanged: the sender is acknowledged first
message_acks_first(sid, data) ==
    IF ~TruthyData(data) \/ ~HasKey(data, "to_uuid") \/ ~HasKey(data, "text")
    THEN Result(users_by_sid, users_by_uuid,
                <<Emit(59, "error", ErrorMsg(<<"to_uuid and text are required">>), sid)>>,
                "return")
    ELSE LET to_uuid == data.kv.to_uuid
             text == data.kv.text
             from_uuid == Get(users_by_sid, sid)
         IN  IF ~Truthy(from_uuid)
             THEN Result(users_by_sid, users_by_uuid,
                         <<Emit(65, "error",
                                ErrorMsg(<<"Call register with your uuid first">>),
                                sid)>>, "return")
             ELSE IF ~Hashable(to_uuid)
             THEN Result(users_by_sid, users_by_uuid, <<>>, "TypeError")
             ELSE LET target_sid == Get(users_by_uuid, to_uuid)
                  IN  IF ~Truthy(target_sid)
                      THEN Result(users_by_sid, users_by_uuid,
                                  <<Emit(69, "error", ErrorMsg(PeerNotOnline(to_uuid)),
                                         sid)>>, "return")
                      ELSE Result(users_by_sid, users_by_uuid,
                                  <<Emit(73, "message_sent", [to_uuid |-> to_uuid], sid),
                                    Emit(72, "message",
                                         [from_uuid |-> from_uuid, text |-> text],
                                         target_sid)>>,
                                  "return")

\* message with lines 64-66 left out: the sender's registration is not checked
message_skips_sender_check(sid, data) ==
    IF ~TruthyData(data) \/ ~HasKey(data, "to_uuid") \/ ~HasKey(data, "text")
    THEN Result(users_by_sid, users_by_uuid,
                <<Emit(59, "error", ErrorMsg(<<"to_uuid and text are required">>), sid)>>,
                "return")
    ELSE LET to_uuid == data.kv.to_uuid
             text == data.kv.text
             from_uuid == Get(users_by_sid, sid)
         IN  IF FALSE
             THEN Result(users_by_sid, users_by_uuid,
                         <<Emit(65, "error",
                                ErrorMsg(<<"Call register with your uuid first">>),
                                sid)>>, "return")
             ELSE IF ~Hashable(to_uuid)
             THEN Result(users_by_sid, users_by_uuid, <<>>, "TypeError")
             ELSE LET target_sid == Get(users_by_uuid, to_uuid)
                  IN  IF ~Truthy(target_sid)
                      THEN Result(users_by_sid, users_by_uuid,
                                  <<Emit(69, "error", ErrorMsg(PeerNotOnline(to_uuid)),
                                         sid)>>, "return")
                      ELSE Result(users_by_sid, users_by_uuid,
                                  <<Emit(72, "message",
                                         [from_uuid |-> from_uuid, text |-> text],
                                         target_sid),
                                    Emit(73, "message_sent", [to_uuid |-> to_uuid], sid)>>,
                                  "return")

\* message with lines 68-70 left out: the target's presence is not checked
message_skips_target_check(sid, data) ==
    IF ~TruthyData(data) \/ ~HasKey(data, "to_uuid") \/ ~HasKey(data, "text")
    THEN Result(users_by_sid, users_by_uuid,
                <<Emit(59, "error", ErrorMsg(<<"to_uuid and text are required">>), sid)>>,
                "return")
    ELSE LET to_uuid == data.kv.to_uuid
             text == data.kv.text
             from_uuid == Get(users_by_sid, sid)
         IN  IF ~Truthy(from_uuid)
             THEN Result(users_by_sid, users_by_uuid,
                         <<Emit(65, "error",
                                ErrorMsg(<<"Call register with your uuid first">>),
                                sid)>>, "return")
             ELSE IF ~Hashable(to_uuid)
             THEN Result(users_by_sid, users_by_uuid, <<>>, "TypeError")
             ELSE LET target_sid == Get(users_by_uuid, to_uuid)
                  IN  IF FALSE
                      THEN Result(users_by_sid, users_by_uuid,
                                  <<Emit(69, "error", ErrorMsg(PeerNotOnline(to_uuid)),
                                         sid)>>, "return")
                      ELSE Result(users_by_sid, users_by_uuid,
                                  <<Emit(72, "message",
                                         [from_uuid |-> from_uuid, text |-> text],
                                         target_sid),
                                    Emit(73, "message_sent", [to_uuid |-> to_uuid], sid)>>,
                                  "return")

\* message with the check of line 58 requiring only one of the two fields
\* (`and` for `or`), the absent one read as None
message_requires_either_field(sid, data) ==
    IF ~TruthyData(data) \/ (~HasKey(data, "to_uuid") /\ ~HasKey(data, "text"))
    THEN Result(users_by_sid, users_by_uuid,
                <<Emit(59, "error", ErrorMsg(<<"to_uuid and text are required">>), sid)>>,
                "return")
    ELSE LET to_uuid == IF HasKey(data, "to_uuid") THEN data.kv.to_uuid ELSE PyNone
             text == IF HasKey(data, "text") THEN data.kv.text ELSE PyNone
             from_uuid == Get(users_by_sid, sid)
         IN  IF ~Truthy(from_uuid)
             THEN Result(users_by_sid, users_by_uuid,
                         <<Emit(65, "error",
                                ErrorMsg(<<"Call register with your uuid first">>),
                                sid)>>, "return")
             ELSE IF ~Hashable(to_uuid)
             THEN Result(users_by_sid, users_by_uuid, <<>>, "TypeError")
             ELSE LET target_sid == Get(users_by_uuid, to_uuid)
                  IN  IF ~Truthy(target_sid)
                      THEN Result(users_by_sid, users_by_uuid,
                                  <<Emit(69, "error", ErrorMsg(PeerNotOnline(to_uuid)),
                                         sid)>>, "return")
                      ELSE Result(users_by_sid, users_by_uuid,
                                  <<Emit(72, "message",
                                         [from_uuid |-> from_uuid, text |-> text],
                                         target_sid),
                                    Emit(73, "message_sent", [to_uuid |-> to_uuid], sid)>>,
                                  "return")

\* message without the return of line 70: after the error for an offline
\* peer the handler goes on to lines 71-73
message_falls_through_offline(sid, data) ==
    IF ~TruthyData(data) \/ ~HasKey(data, "to_uuid") \/ ~HasKey(data, "text")
    THEN Result(users_by_sid, users_by_uuid,
                <<Emit(59, "error", ErrorMsg(<<"to_uuid and text are required">>), sid)>>,
                "return")
    ELSE LET to_uuid == data.kv.to_uuid
             text == data.kv.text
             from_uuid == Get(users_by_sid, sid)
         IN  IF ~Truthy(from_uuid)
             THEN Result(users_by_sid, users_by_uuid,
                         <<Emit(65, "error",
                                ErrorMsg(<<"Call register with your uuid first">>),
                                sid)>>, "return")
             ELSE IF ~Hashable(to_uuid)
             THEN Result(users_by_sid, users_by_uuid, <<>>, "TypeError")
             ELSE LET target_sid == Get(users_by_uuid, to_uuid)
                      send == <<Emit(72, "message",
                                     [from_uuid |-> from_uuid, text |-> text],
                                     target_sid),
                                Emit(73, "message_sent", [to_uuid |-> to_uuid], sid)>>
                  IN  IF ~Truthy(target_sid)
                      THEN Result(users_by_sid, users_by_uuid,
                                  <<Emit(69, "error", ErrorMsg(PeerNotOnline(to_uuid)),
                                         sid)>> \o send, "return")
                      ELSE Result(users_by_sid, users_by_uuid, send, "return")

\* message with line 72 sending to=sid: the payload goes back to the sender
message_echoes_to_sender(sid, data) ==
    IF ~TruthyData(data) \/ ~HasKey(data, "to_uuid") \/ ~HasKey(data, "text")
    THEN Result(users_by_sid, users_by_uuid,
                <<Emit(59, "error", ErrorMsg(<<"to_uuid and text are required">>), sid)>>,
                "return")
    ELSE LET to_uuid == data.kv.to_uuid
             text == data.kv.text
             from_uuid == Get(users_by_sid, sid)
         IN  IF ~Truthy(from_uuid)
             THEN Result(users_by_sid, users_by_uuid,
                         <<Emit(65, "error",
                                ErrorMsg(<<"Call register with your uuid first">>),
                                sid)>>, "return")
             ELSE IF ~Hashable(to_uuid)
             THEN Result(users_by_sid, users_by_uuid, <<>>, "TypeError")
             ELSE LET target_sid == Get(users_by_uuid, to_uuid)
                  IN  IF ~Truthy(target_sid)
                      THEN Result(users_by_sid, users_by_uuid,
                                  <<Emit(69, "error", ErrorMsg(PeerNotOnline(to_uuid)),
                                         sid)>>, "return")
                      ELSE Result(users_by_sid, users_by_uuid,
                                  <<Emit(72, "message",
                                         [from_uuid |-> from_uuid, text |-> text],
                                         sid),
                                    Emit(73, "message_sent", [to_uuid |-> to_uuid], sid)>>,
                                  "return")

message(sid, data) ==
    IF ~TruthyData(data) \/ ~HasKey(data, "to_uuid") \/ ~HasKey(data, "text")
    THEN Result(users_by_sid, users_by_uuid,
                <<Emit(59, "error", ErrorMsg(<<"to_uuid and text are required">>), sid)>>,
                "return")
    ELSE LET to_uuid == data.kv.to_uuid
             text == data.kv.text
             from_uuid == Get(users_by_sid, sid)
         IN  IF ~Truthy(from_uuid)
             THEN Result(users_by_sid, users_by_uuid,
                         <<Emit(65, "error",
                                ErrorMsg(<<"Call register with your uuid first">>),
                                sid)>>, "return")
             ELSE IF ~Hashable(to_uuid)
             THEN Result(users_by_sid, users_by_uuid, <<>>, "TypeError")
             ELSE LET target_sid == Get(users_by_uuid, to_uuid)
                  IN  IF ~Truthy(target_sid)
                      THEN Result(users_by_sid, users_by_uuid,
                                  <<Emit(69, "error", ErrorMsg(PeerNotOnline(to_uuid)),
                                         sid)>>, "return")
                      ELSE Result(users_by_sid, users_by_uuid,
                                  <<Emit(72, "message",
                                         [from_uuid |-> from_uuid, text |-> text],
                                         target_sid),
                                    Emit(73, "message_sent", [to_uuid |-> to_uuid], sid)>>,
                                  "return")

(***************************************************************************)
(* Payloads the clients send.                                              *)
(***************************************************************************)
UuidValues == {UA, UB, EmptyStr, "short", "nothex", IntV, ListV, PyNone}
ToValues == {UA, UB, ListV}
TextValues == {Hi, EmptyStr}

RegisterData ==
    {NoData, Dict(EmptyKv)} \cup {Dict([uuid |-> v]) : v \in UuidValues}

MessageData ==
    {NoData}
    \cup {Dict([to_uuid |-> v]) : v \in ToValues}
    \cup {Dict([text |-> x]) : x \in TextValues}
    \cup {Dict([to_uuid |-> v, text |-> x]) : v \in ToValues, x \in TextValues}

(***************************************************************************)
(* The event loop.  A handler whose emit is handed to the transport is     *)
(* suspended at that await: `line` is the line of the await, `rest` the    *)
(* emits of its continuation, in order (after its first await every        *)
(* handler is straight-line code, and the continuation reads no other      *)
(* local).  Resuming it runs it to its next await or to its return.        *)
(***************************************************************************)
Task(emits) == [line |-> Head(emits).line, rest |-> Tail(emits)]

\* Run for a handler with an await between its two map writes: the step
\* ends after the write to users_by_sid, users_by_uuid not yet written
Run_yields_between_writes(r) ==
    /\ users_by_sid' = r.by_sid
    /\ users_by_uuid' = IF r.by_sid # users_by_sid THEN users_by_uuid ELSE r.by_uuid
    /\ IF r.emits = <<>>
       THEN tasks' = tasks
       ELSE /\ BagCardinality(tasks) < MaxSuspended
            /\ tasks' = tasks (+) SetToBag({Task(r.emits)})

\* run a handler from its entry to its first await, or to its end
Run(r) ==
    /\ users_by_sid' = r.by_sid
    /\ users_by_uuid' = r.by_uuid
    /\ IF r.emits = <<>>
       THEN tasks' = tasks
       ELSE /\ BagCardinality(tasks) < MaxSuspended
            /\ tasks' = tasks (+) SetToBag({Task(r.emits)})

\* The transport dispatches register and message events of a session only
\* between its connect and its disconnect, and hands out each sid once.

\* the handler acknowledged a registration
Acked(r) == r.emits # <<>> /\ Head(r.emits).event = "registered"

Connect(sid) ==
    /\ conn[sid] = "new"
    /\ conn' = [conn EXCEPT ![sid] = "open"]
    /\ Run(connect(sid))
    /\ UNCHANGED last_registered

Disconnect(sid) ==
    /\ conn[sid] = "open"
    /\ conn' = [conn EXCEPT ![sid] = "closed"]
    /\ Run(disconnect(sid))
    /\ last_registered' = Pop(last_registered, sid)

Register(sid, data) ==
    /\ conn[sid] = "open"
    /\ UNCHANGED conn
    /\ LET r == register(sid, data)
       IN  /\ Run(r)
           /\ IF Acked(r)
              THEN last_registered' = Put(last_registered, sid, Head(r.emits).data.uuid)
              ELSE UNCHANGED last_registered

Message(sid, data) ==
    /\ conn[sid] = "open"
    /\ UNCHANGED conn
    /\ Run(message(sid, data))
    /\ UNCHANGED last_registered

\* the await of a suspended handler completes
Resume(task) ==
    /\ BagIn(task, tasks)
    /\ tasks' = IF task.rest = <<>>
                THEN tasks (-) SetToBag({task})
                ELSE (tasks (-) SetToBag({task}))
                     (+) SetToBag({Task(task.rest)})
    /\ UNCHANGED <<users_by_sid, users_by_uuid, conn, last_registered>>

Init ==
    /\ users_by_sid = EmptyDict
    /\ users_by_uuid = EmptyDict
    /\ conn = [s \in Sids |-> "new"]
    /\ tasks = EmptyBag
    /\ last_registered = EmptyDict

Next ==
    \/ \E sid \in Sids : Connect(sid)
    \/ \E sid \in Sids : Disconnect(sid)
    \/ \E sid \in Sids, data \in RegisterData : Register(sid, data)
    \/ \E sid \in Sids, data \in MessageData : Message(sid, data)
    \/ \E task \in BagToSet(tasks) : Resume(task)

Spec == Init /\ [][Next]_vars

(***************************************************************************)
(* The scenario of connections that each register one identity of their   *)
(* own and disconnect once all of them have registered, their register    *)
(* and disconnect handlers interleaved in any order with each other, with  *)
(* message handlers and with the completion of suspended emits.            *)
(***************************************************************************)
Own == [s1 |-> UA, s2 |-> UB, s3 |-> UC]

RegisterOwn(sid) ==
    /\ sid \notin DOMAIN users_by_sid
    /\ Register(sid, Dict([uuid |-> Own[sid]]))

AllRegistered ==
    \A s \in Sids : conn[s] = "closed" \/ (conn[s] = "open" /\ s \in DOMAIN users_by_sid)

DisconnectRegistered(sid) ==
    /\ AllRegistered
    /\ Disconnect(sid)

OwnNext ==
    \/ \E sid \in Sids : Connect(sid)
    \/ \E sid \in Sids : RegisterOwn(sid)
    \/ \E sid \in Sids : DisconnectRegistered(sid)
    \/ \E sid \in Sids, data \in MessageData : Message(sid, data)
    \/ \E task \in BagToSet(tasks) : Resume(task)

OwnSpec == Init /\ [][OwnNext]_vars

(***************************************************************************)
(* Properties.                                                             *)
(***************************************************************************)
\* the uuid values uuid.UUID accepts, and the register payloads carrying one
ValidUuids == {v \in UuidValues : uuid_UUID(v) = "ok"}
RegisterOk == {Dict([uuid |-> v]) : v \in ValidUuids}

\* the message payloads with both fields present
BothFields == {d \in MessageData : HasKey(d, "to_uuid") /\ HasKey(d, "text")}

\* a handler is suspended at the await of `line`, with `rest` still to emit
Suspended(line, rest) == BagIn([line |-> line, rest |-> rest], tasks)

\* C1: the registry is a bijection: users_by_sid and users_by_uuid are exact
\* inverses of each other in every reachable state.
C1_RegistryBijection ==
    /\ \A c \in DOMAIN users_by_sid : Get(users_by_uuid, users_by_sid[c]) = c
    /\ \A u \in DOMAIN users_by_uuid : Get(users_by_sid, users_by_uuid[u]) = u

\* C2: when a connection c registered under u1 registers a different
\* identity u2, then right after that step u1 has no entry in users_by_uuid
\* and u2 resolves to c.
C2_RehomingFreesOldIdentity ==
    [][\A c \in Sids, d \in RegisterOk :
          (/\ Register(c, d)
           /\ c \in DOMAIN users_by_sid
           /\ users_by_sid[c] # d.kv.uuid)
          => /\ users_by_sid[c] \notin DOMAIN users_by_uuid'
             /\ Get(users_by_uuid', d.kv.uuid) = c]_vars

\* C3: when identity u is bound to connection a and another connection b
\* registers u, then right after that step u resolves to b and a has no
\* entry in users_by_sid.
C3_DisplacedConnectionUnbound ==
    [][\A a \in Sids, b \in Sids, d \in RegisterOk :
          (/\ a # b
           /\ Register(b, d)
           /\ Get(users_by_uuid, d.kv.uuid) = a
           /\ Get(users_by_sid, a) = d.kv.uuid)
          => /\ Get(users_by_uuid', d.kv.uuid) = b
             /\ a \notin DOMAIN users_by_sid']_vars

\* C4: once the disconnect of connection c has been processed, no entry of
\* either dictionary refers to c.
C4_DisconnectedLeavesNoEntry ==
    \A c \in Sids :
        conn[c] = "closed"
        => /\ c \notin DOMAIN users_by_sid
           /\ \A u \in DOMAIN users_by_uuid : users_by_uuid[u] # c

\* C5: while b is the latest connection to have registered u, a step that is
\* neither b's disconnect, nor b registering another identity, nor another
\* connection registering u, leaves u resolving to b.
C5_LastRegistrationStays ==
    [][\A b \in Sids, u \in ValidUuids :
          (/\ Get(users_by_uuid, u) = b
           /\ Get(last_registered, b) = u
           /\ ~Disconnect(b)
           /\ ~(\E d \in RegisterOk : Register(b, d) /\ d.kv.uuid # u)
           /\ ~(\E c \in Sids \ {b} : Register(c, Dict([uuid |-> u]))))
          => Get(users_by_uuid', u) = b]_vars

\* C6: in every reachable state, a register event of an open connection c
\* with a valid uuid u leaves users_by_sid[c] = u and users_by_uuid[u] = c,
\* sends c one `registered` event carrying u, sends nothing else and returns.
C6_RegisterBindsAndAcknowledges ==
    \A c \in Sids, d \in RegisterOk :
        conn[c] = "open"
        => LET r == register(c, d)
           IN  /\ Get(r.by_sid, c) = d.kv.uuid
               /\ Get(r.by_uuid, d.kv.uuid) = c
               /\ r.emits = <<Emit(48, "registered", [uuid |-> d.kv.uuid], c)>>
               /\ r.outcome = "return"

\* a register handler is suspended after its acknowledgement and the registry
\* holds the binding it wrote, in both directions
C6_Witness ==
    /\ Suspended(48, <<>>)
    /\ \E c \in Sids, u \in ValidUuids :
          /\ Get(users_by_sid, c) = u
          /\ Get(users_by_uuid, u) = c
          /\ Get(last_registered, c) = u

\* C7: in every reachable state, a message event with both fields, from an
\* open connection s bound to f (the identity s registered last), to a
\* to_uuid that resolves to t, emits a `message` {from_uuid: f, text} to t
\* and then a `message_sent` {to_uuid} to s, and nothing else; the
\* dictionaries are left as they were.
C7_MessageDelivered ==
    \A s \in Sids, d \in BothFields :
        (/\ conn[s] = "open"
         /\ s \in DOMAIN users_by_sid
         /\ Hashable(d.kv.to_uuid)
         /\ d.kv.to_uuid \in DOMAIN users_by_uuid)
        => LET r == message(s, d)
           IN  /\ r.emits
                      = <<Emit(72, "message",
                               [from_uuid |-> Get(last_registered, s),
                                text |-> d.kv.text],
                               users_by_uuid[d.kv.to_uuid]),
                          Emit(73, "message_sent", [to_uuid |-> d.kv.to_uuid], s)>>
               /\ r.by_sid = users_by_sid
               /\ r.by_uuid = users_by_uuid
               /\ r.outcome = "return"

\* a message handler has sent the `message` and is suspended at the
\* `message_sent` it sent to a registered sender other than the target
C7_Witness ==
    /\ Suspended(73, <<>>)
    /\ \E s \in DOMAIN users_by_sid, u \in DOMAIN users_by_uuid :
          users_by_uuid[u] # s

\* C8: in every reachable state, a message event with both fields from an
\* open connection without an entry in users_by_sid emits one `error` "Call
\* register with your uuid first" to that connection and nothing else.
C8_UnregisteredSenderRejected ==
    \A s \in Sids, d \in BothFields :
        (conn[s] = "open" /\ s \notin DOMAIN users_by_sid)
        => LET r == message(s, d)
           IN  /\ r.emits
                      = <<Emit(65, "error",
                               ErrorMsg(<<"Call register with your uuid first">>), s)>>
               /\ r.outcome = "return"

\* a handler is suspended at the error of line 65 while an identity is online
C8_Witness ==
    /\ Suspended(65, <<>>)
    /\ \E u \in DOMAIN users_by_uuid : conn[users_by_uuid[u]] = "open"

\* C9: in every reachable state, a message event with both fields from a
\* registered open connection whose to_uuid has no entry in users_by_uuid
\* emits one `error` "Peer <to_uuid> is not online" to the sender and nothing
\* else.
C9_OfflineTargetReported ==
    \A s \in Sids, d \in BothFields :
        (/\ conn[s] = "open"
         /\ s \in DOMAIN users_by_sid
         /\ Hashable(d.kv.to_uuid)
         /\ d.kv.to_uuid \notin DOMAIN users_by_uuid)
        => LET r == message(s, d)
           IN  /\ r.emits
                      = <<Emit(69, "error",
                               ErrorMsg(<<"Peer ", d.kv.to_uuid, " is not online">>),
                               s)>>
               /\ r.outcome = "return"

\* a handler is suspended at the error of line 69 while another connection
\* is open
C9_Witness ==
    /\ Suspended(69, <<>>)
    /\ Cardinality({c \in Sids : conn[c] = "open"}) >= 2

\* C10: a register event whose payload lacks the uuid field is answered with
\* the error "uuid is required", and one whose uuid value is not accepted
\* (empty, malformed, not a string) with the error "Invalid uuid"; the handler
\* never ends without an emit.
C10_BadRegisterAnswered ==
    \A c \in Sids, d \in RegisterData :
        conn[c] = "open"
        => LET r == register(c, d)
           IN  /\ r.outcome = "return"
               /\ r.emits # <<>>
               /\ ~HasKey(d, "uuid")
                  => r.emits = <<Emit(38, "error",
                                      ErrorMsg(<<"uuid is required">>), c)>>
               /\ (HasKey(d, "uuid") /\ d.kv.uuid \notin ValidUuids)
                  => r.emits = <<Emit(44, "error", ErrorMsg(<<"Invalid uuid">>), c)>>

\* the register payloads that are rejected: no uuid field, or a value that
\* uuid.UUID does not accept
RegisterRejected ==
    {d \in RegisterData : ~HasKey(d, "uuid") \/ d.kv.uuid \notin ValidUuids}

\* C11: in every reachable state, a rejected register event of an open
\* connection leaves users_by_sid and users_by_uuid exactly as they were.
C11_RejectedRegisterChangesNothing ==
    [](\A c \in Sids, d \in RegisterRejected :
           conn[c] = "open"
           => LET r == register(c, d)
              IN  r.by_sid = users_by_sid /\ r.by_uuid = users_by_uuid)

\* a handler is suspended at one of register's error emits while a connection
\* holds a binding, in both directions
C11_Witness ==
    /\ Suspended(38, <<>>) \/ Suspended(44, <<>>)
    /\ \E c \in DOMAIN users_by_sid :
          conn[c] = "open" /\ Get(users_by_uuid, users_by_sid[c]) = c

\* C12: in every reachable state, a message event of an open connection,
\* whatever its payload and outcome, leaves users_by_sid and users_by_uuid as
\* they were; and when to_uuid or text is missing, the handler emits the one
\* error of line 59 to the caller and nothing else, so neither `message` nor
\* `message_sent` is emitted.
C12_MessageLeavesRegistry ==
    [](\A s \in Sids, d \in MessageData :
           conn[s] = "open"
           => LET r == message(s, d)
              IN  /\ r.by_sid = users_by_sid
                  /\ r.by_uuid = users_by_uuid
                  /\ d \notin BothFields
                     => r.emits = <<Emit(59, "error",
                                         ErrorMsg(<<"to_uuid and text are required">>),
                                         s)>>)

\* a handler is suspended at the error of line 59 while two connections are
\* bound, so that a message between them could have been routed
C12_Witness ==
    /\ Suspended(59, <<>>)
    /\ \E a \in DOMAIN users_by_sid, b \in DOMAIN users_by_sid :
          /\ a # b
          /\ conn[a] = "open"
          /\ Get(users_by_uuid, users_by_sid[b]) = b

\* C13: in every reachable state, the disconnect handler of an open
\* connection runs to its end without raising and without emitting; and when
\* the connection has no entry in users_by_sid, it leaves users_by_sid and
\* users_by_uuid exactly as they are.
C13_DisconnectOfUnboundIsNoOp ==
    [](\A c \in Sids :
           conn[c] = "open"
           => LET r == disconnect(c)
              IN  /\ r.outcome = "return"
                  /\ r.emits = <<>>
                  /\ c \notin DOMAIN users_by_sid
                     => r.by_sid = users_by_sid /\ r.by_uuid = users_by_uuid)

\* one connection is closed and has left nothing behind, another is open with
\* no identity bound, and a third holds a binding that a disconnect could harm
C13_Witness ==
    \E c \in Sids, a \in Sids, b \in Sids :
        /\ conn[c] = "closed"
        /\ \A u \in DOMAIN users_by_uuid : users_by_uuid[u] # c
        /\ conn[a] = "open" /\ a \notin DOMAIN users_by_sid
        /\ conn[b] = "open" /\ b \in DOMAIN users_by_sid
        /\ Get(users_by_uuid, users_by_sid[b]) = b

\* C14: under OwnSpec, where every connection registers one identity of its
\* own and the disconnects follow the registrations in any order, interleaved
\* with message handlers, once every connection is closed both users_by_sid
\* and users_by_uuid are empty.
C14_AllGoneLeavesEmptyRegistry ==
    (\A s \in Sids : conn[s] = "closed")
    => users_by_sid = EmptyDict /\ users_by_uuid = EmptyDict

\* every connection has registered and disconnected, and a message handler
\* that started in between is still suspended at one of its two sends
C14_Witness ==
    /\ \A s \in Sids : conn[s] = "closed"
    /\ \E t \in BagToSet(tasks) : t.line \in {72, 73}
    /\ users_by_sid = EmptyDict

\* C15: every step leaves the program at an await of sio.emit, never between
\* lines 46 and 47 of register or inside lines 26-28 of disconnect; so in the
\* state after any step, where the other handlers can run, an entry the step
\* wrote into one map is matched by the entry it wrote into the other, and a
\* connection the step removed from users_by_sid has its identity removed
\* from users_by_uuid as well.
C15_RegistryWritesAtomic ==
    [][/\ \A t \in BagToSet(tasks') : t.line \notin (26..28) \cup (46..47)
       /\ \A c \in Sids, u \in ValidUuids :
             /\ (Get(users_by_sid', c) = u /\ Get(users_by_sid, c) # u)
                => Get(users_by_uuid', u) = c
             /\ (Get(users_by_uuid', u) = c /\ Get(users_by_uuid, u) # c)
                => Get(users_by_sid', c) = u
             /\ (Get(users_by_sid, c) = u /\ c \notin DOMAIN users_by_sid')
                => u \notin DOMAIN users_by_uuid'
             /\ (Get(users_by_uuid, u) = c /\ u \notin DOMAIN users_by_uuid')
                => \E a \in Sids : Get(users_by_sid, a) = u
                                   /\ a \notin DOMAIN users_by_sid']_vars

\* a register handler is suspended at its acknowledgement together with
\* another handler, and a binding is present in both maps
C15_Witness ==
    /\ Suspended(48, <<>>)
    /\ BagCardinality(tasks) >= 2
    /\ \E c \in DOMAIN users_by_sid : Get(users_by_uuid, users_by_sid[c]) = c

\* C16: in every reachable state, a message handler of an open connection
\* that emits `message_sent` emits it second, directly after the `message` of
\* line 72, and emits no error; a handler that emits an error emits nothing
\* else.  And every suspended handler that still has `message_sent` to emit
\* is suspended at the emit of `message` of line 72.
C16_MessageBeforeMessageSent ==
    [](/\ \A s \in Sids, d \in MessageData :
             conn[s] = "open"
             => LET e == message(s, d).emits
                IN  /\ \A i \in DOMAIN e :
                          e[i].event = "message_sent"
                          => /\ i = 2
                             /\ e[1].event = "message" /\ e[1].line = 72
                             /\ Len(e) = 2
                    /\ (\E i \in DOMAIN e : e[i].event = "error") => Len(e) = 1
       /\ \A t \in BagToSet(tasks) :
             t.rest # <<>>
             => /\ t.line = 72
                /\ Len(t.rest) = 1
                /\ t.rest[1].event = "message_sent")

\* one message handler is suspended at the send of `message`, its
\* `message_sent` still to come, and another at its `message_sent`
C16_Witness ==
    /\ \E t \in BagToSet(tasks) : t.line = 72 /\ Len(t.rest) = 1
    /\ Suspended(73, <<>>)

\* C17: a message handler reads the sender (line 63), reads the target (line
\* 67) and hands `message` over (line 72) in one step.  In every reachable
\* state the `message` a handler of an open connection emits is its first
\* emit, goes to the connection users_by_uuid holds for to_uuid in that state
\* and names the identity users_by_sid holds for the sender in that state;
\* and every step that leaves a new handler suspended at line 72 starts in a
\* state where its sender is open and bound and its to_uuid is bound, and
\* changes neither map.
C17_RoutesOnOneSnapshot ==
    /\ [](\A s \in Sids, d \in BothFields :
             conn[s] = "open"
             => LET e == message(s, d).emits
                IN  \A i \in DOMAIN e :
                        e[i].event = "message"
                        => /\ i = 1
                           /\ e[i].to = Get(users_by_uuid, d.kv.to_uuid)
                           /\ e[i].data.from_uuid = Get(users_by_sid, s))
    /\ [][\A t \in BagToSet(tasks') :
             (t.line = 72 /\ CopiesIn(t, tasks') > CopiesIn(t, tasks))
             => LET ack == t.rest[1]
                IN  /\ conn[ack.to] = "open"
                    /\ ack.to \in DOMAIN users_by_sid
                    /\ ack.data.to_uuid \in DOMAIN users_by_uuid
                    /\ UNCHANGED <<users_by_sid, users_by_uuid>>]_vars

\* a message handler is suspended at the hand-off of line 72 while a
\* register handler is suspended at its acknowledgement: the two overlap
C17_Witness ==
    /\ \E t \in BagToSet(tasks) : t.line = 72
    /\ Suspended(48, <<>>)

\* C18: in every reachable state, the handler of a message event with both
\* fields present, from an open connection, runs to its end and emits to the
\* sender exactly one answer: either one `error` or one `message_sent`, never
\* both and never neither.
C18_MessageAnsweredOnce ==
    \A s \in Sids, d \in BothFields :
        conn[s] = "open"
        => LET r == message(s, d)
               answers == {i \in DOMAIN r.emits :
                              /\ r.emits[i].to = s
                              /\ r.emits[i].event \in {"error", "message_sent"}}
           IN  /\ r.outcome = "return"
               /\ Cardinality(answers) = 1

====
